---- MODULE Spec2Model ----
(***************************************************************************)
(* opentrace core: the pipeline runner (core/pipeline.go), the module wire *)
(* protocol (JSON over stdin/stdout, sdk/sdk.go) and the module subprocess *)
(* seen as a black box that answers with an exit status, a stdout capture  *)
(* and a stderr text.                                                      *)
(*                                                                         *)
(* Byte strings are sequences of one-symbol strings.  BAD stands for a     *)
(* byte that is not valid UTF-8 and FFFD for the replacement character     *)
(* U+FFFD that encoding/json substitutes for it.                           *)
(***************************************************************************)
EXTENDS Integers, Sequences, FiniteSets, TLC

----------------------------------------------------------------------------
(* Symbols of the byte strings                                             *)

Q == "\""
BS == "\\"
NL == "\n"
SP == " "
BAD == "BAD"
FFFD == "FFFD"

isSpace(c) == c \in {SP, NL}

Digits == {"1", "2"}

----------------------------------------------------------------------------
(* bytes.TrimSpace and strings.HasPrefix / strings.TrimPrefix              *)

RECURSIVE TrimLeft(_)
TrimLeft(b) ==
    IF b # <<>> /\ isSpace(Head(b)) THEN TrimLeft(Tail(b)) ELSE b

RECURSIVE TrimRight(_)
TrimRight(b) ==
    IF b # <<>> /\ isSpace(b[Len(b)])
    THEN TrimRight(SubSeq(b, 1, Len(b) - 1))
    ELSE b

TrimSpace(b) == TrimRight(TrimLeft(b))

HasPrefix(s, prefix) ==
    /\ Len(s) >= Len(prefix)
    /\ SubSeq(s, 1, Len(prefix)) = prefix

TrimPrefix(s, prefix) ==
    IF HasPrefix(s, prefix) THEN SubSeq(s, Len(prefix) + 1, Len(s)) ELSE s

----------------------------------------------------------------------------
(* encoding/json, decoding side: the scanner that validates one JSON value *)
(* and the literal store that unquotes strings.  A scanned value is        *)
(* [ok, next, kind, s, fields]; next is the position after the value.      *)

ScanFail == [ok |-> FALSE, next |-> 0, kind |-> "invalid", s |-> <<>>, fields |-> <<>>]

Scanned(k, n, str, fs) == [ok |-> TRUE, next |-> n, kind |-> k, s |-> str, fields |-> fs]

RECURSIVE skipWS(_, _)
skipWS(b, i) ==
    IF i <= Len(b) /\ isSpace(b[i]) THEN skipWS(b, i + 1) ELSE i

RECURSIVE skipDigits(_, _)
skipDigits(b, i) ==
    IF i <= Len(b) /\ b[i] \in Digits THEN skipDigits(b, i + 1) ELSE i

(* i is the position after the opening quote, acc the unquoted text so far.  *)
(* A raw control character inside a string is invalid; a byte that is not    *)
(* valid UTF-8 is coerced to U+FFFD.                                         *)
RECURSIVE scanString(_, _, _)
scanString(b, i, acc) ==
    IF i > Len(b) THEN ScanFail
    ELSE IF b[i] = Q THEN Scanned("string", i + 1, acc, <<>>)
    ELSE IF b[i] = BS THEN
        IF i + 1 > Len(b) THEN ScanFail
        ELSE IF b[i + 1] = Q THEN scanString(b, i + 2, Append(acc, Q))
        ELSE IF b[i + 1] = BS THEN scanString(b, i + 2, Append(acc, BS))
        ELSE IF b[i + 1] = "n" THEN scanString(b, i + 2, Append(acc, NL))
        ELSE IF /\ b[i + 1] = "u"
                /\ i + 5 <= Len(b)
                /\ SubSeq(b, i + 2, i + 5) = <<"f", "f", "f", "d">>
             THEN scanString(b, i + 6, Append(acc, FFFD))
        ELSE ScanFail
    ELSE IF b[i] = NL THEN ScanFail
    ELSE IF b[i] = BAD THEN scanString(b, i + 1, Append(acc, FFFD))
    ELSE scanString(b, i + 1, Append(acc, b[i]))

RECURSIVE scanValue(_, _), scanMembers(_, _, _)
scanValue(b, i0) ==
    LET i == skipWS(b, i0) IN
    IF i > Len(b) THEN ScanFail
    ELSE IF b[i] = Q THEN scanString(b, i + 1, <<>>)
    ELSE IF b[i] = "{" THEN
        LET j == skipWS(b, i + 1) IN
        IF j <= Len(b) /\ b[j] = "}"
        THEN Scanned("object", j + 1, <<>>, <<>>)
        ELSE scanMembers(b, j, <<>>)
    ELSE IF i + 3 <= Len(b) /\ SubSeq(b, i, i + 3) = <<"n", "u", "l", "l">>
        THEN Scanned("null", i + 4, <<>>, <<>>)
    ELSE IF b[i] \in Digits THEN Scanned("number", skipDigits(b, i), <<>>, <<>>)
    ELSE ScanFail

scanMembers(b, i0, acc) ==
    LET i == skipWS(b, i0) IN
    IF i > Len(b) \/ b[i] # Q THEN ScanFail
    ELSE
    LET k == scanString(b, i + 1, <<>>) IN
    IF ~k.ok THEN ScanFail
    ELSE
    LET c == skipWS(b, k.next) IN
    IF c > Len(b) \/ b[c] # ":" THEN ScanFail
    ELSE
    LET v == scanValue(b, c + 1) IN
    IF ~v.ok THEN ScanFail
    ELSE
    LET e == skipWS(b, v.next)
        fs == Append(acc, [key |-> k.s, kind |-> v.kind, s |-> v.s])
    IN
    IF e > Len(b) THEN ScanFail
    ELSE IF b[e] = "," THEN scanMembers(b, e + 1, fs)
    ELSE IF b[e] = "}" THEN Scanned("object", e + 1, <<>>, fs)
    ELSE ScanFail

(* checkValid: exactly one JSON value, surrounded by white space only.       *)
checkValid(b) ==
    LET v == scanValue(b, 1) IN
    IF v.ok /\ skipWS(b, v.next) = Len(b) + 1 THEN v ELSE ScanFail

(* Decoder.Decode reads the first JSON value of a stream and leaves the rest. *)
firstValue(b) == scanValue(b, 1)

(* Decoding an object into a struct with one string field named key: a JSON  *)
(* string sets the field, null leaves it, any other kind is a type error;    *)
(* a later member of the same key overrides an earlier one; other keys are   *)
(* skipped.  The result is [err, val].                                       *)
RECURSIVE stringField(_, _, _)
stringField(fs, key, acc) ==
    IF fs = <<>> THEN acc
    ELSE LET f == Head(fs) IN
         stringField(Tail(fs), key,
            IF f.key # key THEN acc
            ELSE IF f.kind = "string" THEN [err |-> acc.err, val |-> f.s]
            ELSE IF f.kind = "null" THEN acc
            ELSE [err |-> TRUE, val |-> acc.val])

decodeStruct(v, key) ==
    IF ~v.ok THEN [err |-> TRUE, val |-> <<>>]
    ELSE IF v.kind = "null" THEN [err |-> FALSE, val |-> <<>>]
    ELSE IF v.kind = "object"
        THEN stringField(v.fields, key, [err |-> FALSE, val |-> <<>>])
    ELSE [err |-> TRUE, val |-> <<>>]

resultKey == <<"r", "e", "s", "u", "l", "t">>
inputKey == <<"i", "n", "p", "u", "t">>
configKey == <<"c", "o", "n", "f", "i", "g">>

(* json.Unmarshal(raw, &out) with out an sdk.Output                        *)
UnmarshalFirst(raw) == decodeStruct(firstValue(raw), resultKey)

Unmarshal(raw) == decodeStruct(checkValid(raw), resultKey)

----------------------------------------------------------------------------
(* encoding/json, encoding side                                            *)

escapeNothing(c) == <<c>>

escape(c) ==
    IF c = Q THEN <<BS, Q>>
    ELSE IF c = BS THEN <<BS, BS>>
    ELSE IF c = NL THEN <<BS, "n">>
    ELSE IF c = BAD THEN <<BS, "u", "f", "f", "f", "d">>
    ELSE <<c>>

RECURSIVE escapeAll(_)
escapeAll(s) ==
    IF s = <<>> THEN <<>> ELSE escape(Head(s)) \o escapeAll(Tail(s))

encodeString(s) == <<Q>> \o escapeAll(s) \o <<Q>>


(* json.NewEncoder(os.Stdout).Encode(out): the document and a newline      *)
encodeOutput(result) ==
    <<"{">> \o encodeString(resultKey) \o <<":">> \o encodeString(result)
        \o <<"}", NL>>

(* Step.Config as yaml.v3 decodes it into map[string]any: absent ("nil"),  *)
(* a map json can encode ("map"), or a value json.Marshal rejects, such as *)
(* a nested mapping with non-string keys or a NaN ("unsupported").         *)
Configs == {"nil", "map", "unsupported"}

marshalConfig(c) ==
    IF c = "nil" THEN <<"n", "u", "l", "l">>
    ELSE <<"{">> \o encodeString(<<"k">>) \o <<":">> \o encodeString(<<"v">>) \o <<"}">>

(* json.Marshal(in) with in an sdk.Input                                   *)
MarshalUnescaped(in) ==
    IF in.Config = "unsupported" THEN [err |-> TRUE, bytes |-> <<>>]
    ELSE [err |-> FALSE,
          bytes |-> <<"{">> \o encodeString(inputKey) \o <<":">>
                        \o <<Q>> \o in.Input \o <<Q, ",">>
                        \o encodeString(configKey) \o <<":">>
                        \o marshalConfig(in.Config) \o <<"}">>]

Marshal(in) ==
    IF in.Config = "unsupported" THEN [err |-> TRUE, bytes |-> <<>>]
    ELSE [err |-> FALSE,
          bytes |-> <<"{">> \o encodeString(inputKey) \o <<":">>
                        \o encodeString(in.Input) \o <<",">>
                        \o encodeString(configKey) \o <<":">>
                        \o marshalConfig(in.Config) \o <<"}">>]

(* What a module reads from its stdin: the input field of the payload      *)
moduleInput(payload) == decodeStruct(firstValue(payload), inputKey).val

(* json.NewDecoder(os.Stdin).Decode(&in) with in an sdk.Input: the first   *)
(* JSON value of the stream; input must be a string or null, config an     *)
(* object or null.                                                         *)
sdkDecode(payload) ==
    LET v == firstValue(payload)
        in == decodeStruct(v, inputKey)
        badConfig ==
            /\ v.ok
            /\ v.kind = "object"
            /\ \E k \in 1..Len(v.fields) :
                  /\ v.fields[k].key = configKey
                  /\ v.fields[k].kind \notin {"object", "null"}
    IN  [err |-> in.err \/ badConfig, input |-> in.val]

(* sdk.Run(m) as a process: what it leaves on stdout and stderr and its    *)
(* exit status, given the payload on stdin and what m.Run returns          *)
sdkRunNoExit(payload, m) ==
    IF sdkDecode(payload).err \/ m.err
    THEN [status |-> 0, stdout |-> encodeOutput(<<>>), stderr |-> <<"x">>]
    ELSE [status |-> 0, stdout |-> encodeOutput(m.result), stderr |-> <<>>]

sdkRun(payload, m) ==
    IF sdkDecode(payload).err
    THEN [status |-> 1, stdout |-> <<>>, stderr |-> <<"x">>]
    ELSE IF m.err
    THEN [status |-> 1, stdout |-> <<>>, stderr |-> <<"x">>]
    ELSE [status |-> 0, stdout |-> encodeOutput(m.result), stderr |-> <<>>]

----------------------------------------------------------------------------
(* os.ExpandEnv: os.Expand with os.Getenv as the mapping                  *)

Letters == {"a", "b", "c", "e", "k", "r", "v", "x"}

isShellSpecialVar(c) ==
    c \in {"*", "#", "$", "@", "!", "?", "-", "0", "1", "2", "3", "4", "5",
           "6", "7", "8", "9"}

isAlphaNum(c) ==
    c = "_" \/ c \in Letters \/ c \in {"0", "1", "2", "3", "4", "5", "6", "7", "8", "9"}

(* the length of the longest prefix of s made of alphanumerics             *)
RECURSIVE alphaNumPrefix(_)
alphaNumPrefix(s) ==
    IF s = <<>> \/ ~isAlphaNum(Head(s)) THEN 0 ELSE 1 + alphaNumPrefix(Tail(s))

(* getShellName(s), s being what follows a "$": the name and the number of *)
(* bytes it takes up; an empty name with a width above 0 is bad syntax.    *)
getShellName(s) ==
    IF s[1] = "{"
    THEN IF Len(s) > 2 /\ isShellSpecialVar(s[2]) /\ s[3] = "}"
         THEN [name |-> <<s[2]>>, w |-> 3]
         ELSE LET closing == {i \in 2..Len(s) : s[i] = "}"} IN
              IF closing = {} THEN [name |-> <<>>, w |-> 1]
              ELSE LET i == CHOOSE x \in closing : \A y \in closing : x <= y IN
                   IF i = 2 THEN [name |-> <<>>, w |-> 2]
                   ELSE [name |-> SubSeq(s, 2, i - 1), w |-> i]
    ELSE IF isShellSpecialVar(s[1]) THEN [name |-> <<s[1]>>, w |-> 1]
    ELSE LET n == alphaNumPrefix(s) IN [name |-> SubSeq(s, 1, n), w |-> n]

(* os.Getenv: the value of the variable, empty when it is not set          *)
Getenv(environ, name) ==
    IF name \in DOMAIN environ THEN environ[name] ELSE <<>>

RECURSIVE ExpandEnv(_, _)
ExpandEnv(s, environ) ==
    IF s = <<>> THEN <<>>
    ELSE IF Head(s) = "$" /\ Len(s) > 1
    THEN LET n == getShellName(Tail(s)) IN
         (IF n.name = <<>> /\ n.w > 0 THEN <<>>
          ELSE IF n.name = <<>> THEN <<"$">>
          ELSE Getenv(environ, n.name))
            \o ExpandEnv(SubSeq(s, 2 + n.w, Len(s)), environ)
    ELSE <<Head(s)>> \o ExpandEnv(Tail(s), environ)

----------------------------------------------------------------------------

(* Bounds and the finite sets the inputs are drawn from                    *)

MaxSteps == 3

sigil == <<"$">>

NameA == <<"a">>
NameB == <<"b">>

Step(name, input, config) == [Name |-> name, Input |-> input, Config |-> config]

(* The steps a loaded pipeline is built from: a literal input, a reference *)
(* to the other name, a reference to the step's own name, and a step whose *)
(* config json.Marshal rejects.                                            *)
StepKinds ==
    { Step(NameA, <<"x">>, "nil"),
      Step(NameB, sigil \o NameA, "map"),
      Step(NameA, sigil \o NameB, "nil"),
      Step(NameB, sigil \o NameB, "unsupported") }

RECURSIVE SeqsUpTo(_, _)
SeqsUpTo(S, n) ==
    IF n = 0 THEN {<<>>}
    ELSE LET shorter == SeqsUpTo(S, n - 1) IN
         shorter \cup {Append(q, x) : q \in {r \in shorter : Len(r) = n - 1}, x \in S}

(* Load returns only pipelines with at least one step.                     *)
Pipelines == {q \in SeqsUpTo(StepKinds, MaxSteps) : Len(q) > 0}

ResultR == <<"r">>
ResultJSON == <<"{", Q, "c", Q, ":", "1", "}">>
ResultSigil == sigil \o NameA
ResultBad == <<BAD>>

resultMember(v) == encodeString(resultKey) \o <<":">> \o v

(* What a module may leave on its stdout                                   *)
OutR == encodeOutput(ResultR)
OutEmptyResult == encodeOutput(<<>>)
OutJSON == encodeOutput(ResultJSON)
OutSigil == encodeOutput(ResultSigil)
OutBadResult == encodeOutput(ResultBad)
OutBadByte == <<"{">> \o resultMember(<<Q, BAD, Q>>) \o <<"}">>
OutNull == <<"n", "u", "l", "l", NL>>
OutEmptyObject == <<"{", "}">>
OutTwoLines == <<"{">> \o resultMember(<<NL>> \o encodeString(ResultR)) \o <<"}", NL>>
OutOtherKey ==
    <<"{">> \o encodeString(<<"k">>) \o <<":", "1", ",">>
        \o resultMember(encodeString(ResultR)) \o <<"}">>
OutNothing == <<>>
OutBlank == <<SP, NL>>
OutDisplayThenJSON == <<"x", SP, "x", NL>> \o encodeOutput(ResultR)
OutTwoDocuments == encodeOutput(ResultR) \o encodeOutput(ResultJSON)
OutText == <<"x", NL>>
OutString == encodeString(ResultR)
OutNumberResult == <<"{">> \o resultMember(<<"1">>) \o <<"}">>

StdoutTexts ==
    { OutR, OutEmptyResult, OutJSON, OutSigil, OutBadByte, OutNull, OutEmptyObject,
      OutTwoLines, OutOtherKey, OutNothing, OutBlank, OutDisplayThenJSON,
      OutTwoDocuments, OutText, OutString, OutNumberResult, OutBadResult }

StderrTexts == {<<>>, <<"x">>}

(* The pipeline definitions Load may be pointed at.  A definition is taken *)
(* by its structure: whether the file can be read, whether its expanded    *)
(* text is YAML that decodes into a Pipeline, and the name and input       *)
(* scalars of its modules as written; a missing key is the empty scalar.   *)
(* The scalars hold no YAML syntax and neither do the environment values,  *)
(* so expanding the raw text is expanding each scalar.                     *)
MaxModules == 2

RawNames == {NameA, NameB, <<>>}
RawInputs == {<<"x">>, sigil \o NameA, <<"$", "{">> \o NameA \o <<"}">>}
RawSteps == {[name |-> n, input |-> i] : n \in RawNames, i \in RawInputs}

Sources ==
    {[readable |-> FALSE, wellFormed |-> FALSE, modules |-> <<>>],
     [readable |-> TRUE, wellFormed |-> FALSE, modules |-> <<>>]} \cup
    {[readable |-> TRUE, wellFormed |-> TRUE, modules |-> m] :
        m \in SeqsUpTo(RawSteps, MaxModules)}

(* the process environment: NameA is unset, or set                         *)
Environs == {<<>>, [n \in {NameA} |-> <<"v">>]}

(* What the Run method of a module returns: an error, or an Output         *)
ModuleRuns ==
    {[err |-> TRUE, result |-> <<>>]} \cup
    {[err |-> FALSE, result |-> r] :
        r \in {ResultR, <<>>, ResultJSON, ResultSigil, ResultBad}}

(* Exit statuses of a module process; Killed is the status of a process    *)
(* ended by the signal the cancelled context sends.                        *)
ExitStatuses == {0, 1}
Killed == -1

----------------------------------------------------------------------------
(* core.Run and core.runModule                                             *)

VARIABLES
    p,            \* the pipeline Load returned
    idx,          \* position of the range loop of Run in p.Modules
    pc,           \* "loop": before a step; "wait": in cmd.Run; "done": returned
    outputs,      \* the map outputs of Run
    err,          \* what Run returned: "pending", "nil" or the error text
    stdin,        \* the payload on the stdin of the running subprocess
    cancelled,    \* ctx is done
    spawns,       \* history: the subprocesses started, [step, input]
    exits,        \* history: the subprocesses ended, [step, status, ok, result]
    lastExit,     \* history: status and stdout of the last subprocess ended
    twinOutputs,  \* outputs of a second run whose modules differ in stderr only
    twinErr,      \* what that second run returned
    differ,       \* some module wrote different stderr text in the two runs
    source,       \* the pipeline definition Load is pointed at
    environ,      \* the process environment of the core
    goos,         \* runtime.GOOS
    pathext,      \* the extensions os/exec tries on windows (PATHEXT)
    files,        \* the files in BinDir()
    registry,     \* the local registry.json: name -> [BinPath, Version]
    ipc,          \* the installer: "idle", or "prompt" (in fmt.Scan)
    pending,      \* the module the prompt asks about
    ierr,         \* what Install or Uninstall returned last
    confirm       \* history: what fmt.Scan read at the last prompt

runVars == <<p, idx, pc, outputs, err, stdin, cancelled, spawns, exits, lastExit,
             twinOutputs, twinErr, differ>>

loadVars == <<source, environ>>

installVars == <<goos, pathext, files, registry, ipc, pending, ierr, confirm>>

vars == <<runVars, loadVars, installVars>>

ErrReference == "references output but it hasn't run yet"
ErrMarshal == "json: unsupported type"
ErrExited == "exited with error"
ErrNoOutput == "module produced no output"
ErrNotJSON == "module output is not valid JSON"

Errors == {ErrReference, ErrMarshal, ErrExited, ErrNoOutput, ErrNotJSON}

ErrRead == "cannot read pipeline"
ErrYAML == "invalid pipeline YAML"
ErrNoModules == "pipeline has no modules"

LoadErrors == {ErrRead, ErrYAML, ErrNoModules}

NoExit == [status |-> 0, stdout |-> <<>>, step |-> 0]

(* Run is called on a pipeline the caller holds: nothing is being loaded   *)
NoSource == [readable |-> FALSE, wellFormed |-> FALSE, modules |-> <<>>]

NoPending == [name |-> <<>>, version |-> <<>>]

(* the installer is not run and the module directory is not looked at      *)
InstallerIdle ==
    /\ goos = "linux"
    /\ pathext = <<>>
    /\ files = {}
    /\ registry = <<>>
    /\ ipc = "idle"
    /\ pending = NoPending
    /\ ierr = "pending"
    /\ confirm = <<>>

Init ==
    /\ p \in Pipelines
    /\ idx = 1
    /\ pc = "loop"
    /\ outputs = <<>>
    /\ err = "pending"
    /\ stdin = <<>>
    /\ cancelled = FALSE
    /\ spawns = <<>>
    /\ exits = <<>>
    /\ lastExit = NoExit
    /\ twinOutputs = <<>>
    /\ twinErr = "pending"
    /\ differ = FALSE
    /\ source = NoSource
    /\ environ = <<>>
    /\ InstallerIdle

(* input := step.Input; if it has the "$" prefix, the value recorded for   *)
(* the name after it, or no value when the map has no such key.            *)
ResolveEmptyIsMissing(input, outs) ==
    IF HasPrefix(input, sigil)
    THEN LET ref == TrimPrefix(input, sigil) IN
         IF ref \in DOMAIN outs /\ outs[ref] # <<>>
         THEN [ok |-> TRUE, val |-> outs[ref]]
         ELSE [ok |-> FALSE, val |-> <<>>]
    ELSE [ok |-> TRUE, val |-> input]

ResolveNoCheck(input, outs) ==
    IF HasPrefix(input, sigil)
    THEN LET ref == TrimPrefix(input, sigil) IN
         [ok |-> TRUE, val |-> IF ref \in DOMAIN outs THEN outs[ref] ELSE <<>>]
    ELSE [ok |-> TRUE, val |-> input]

Resolve(input, outs) ==
    IF HasPrefix(input, sigil)
    THEN LET ref == TrimPrefix(input, sigil) IN
         IF ref \in DOMAIN outs
         THEN [ok |-> TRUE, val |-> outs[ref]]
         ELSE [ok |-> FALSE, val |-> <<>>]
    ELSE [ok |-> TRUE, val |-> input]

(* outputs[step.Name] = result                                             *)
PutAlone(outs, name, result) == [n \in {name} |-> result]

PutKeepFirst(outs, name, result) ==
    IF name \in DOMAIN outs THEN outs
    ELSE [n \in DOMAIN outs \cup {name} |-> IF n = name THEN result ELSE outs[n]]

Put(outs, name, result) ==
    [n \in DOMAIN outs \cup {name} |-> IF n = name THEN result ELSE outs[n]]

(* return fmt.Errorf(...): Run ends at step i with error e                 *)
AbortAndGoOn(e, i, n) ==
    IF i = n THEN [pc |-> "done", idx |-> i, err |-> e]
    ELSE [pc |-> "loop", idx |-> i + 1, err |-> e]

AbortRetry(e, i, n) == [pc |-> "loop", idx |-> i, err |-> "pending"]

Abort(e, i, n) == [pc |-> "done", idx |-> i, err |-> e]

(* the end of a loop body: the next step, or return nil after the last     *)
AdvanceSkipLast(i, n) ==
    IF i >= n - 1 THEN [pc |-> "done", idx |-> i, err |-> "nil"]
    ELSE [pc |-> "loop", idx |-> i + 1, err |-> "pending"]

Advance(i, n) ==
    IF i = n THEN [pc |-> "done", idx |-> i, err |-> "nil"]
    ELSE [pc |-> "loop", idx |-> i + 1, err |-> "pending"]

(* cmd.Stdout = &stdout; cmd.Stderr = os.Stderr: what the buffer holds     *)
CapturedCombined(out, errText) == out \o errText

Captured(out, errText) == out

(* runModule after cmd.Run returned: [err, result]                         *)
runModuleTailStdoutFirst(status, capture) ==
    LET raw == TrimSpace(capture)
        out == Unmarshal(raw)
    IN  IF raw # <<>> /\ ~out.err THEN [err |-> "nil", result |-> out.val]
        ELSE IF status # 0 THEN [err |-> ErrExited, result |-> <<>>]
        ELSE IF raw = <<>> THEN [err |-> ErrNoOutput, result |-> <<>>]
        ELSE [err |-> ErrNotJSON, result |-> <<>>]

runModuleTailNoTrim(status, capture) ==
    IF status # 0 THEN [err |-> ErrExited, result |-> <<>>]
    ELSE LET raw == capture IN
         IF raw = <<>> THEN [err |-> ErrNoOutput, result |-> <<>>]
         ELSE LET out == Unmarshal(raw) IN
              IF out.err THEN [err |-> ErrNotJSON, result |-> <<>>]
              ELSE [err |-> "nil", result |-> out.val]

runModuleTailFirstDocument(status, capture) ==
    IF status # 0 THEN [err |-> ErrExited, result |-> <<>>]
    ELSE LET raw == TrimSpace(capture) IN
         IF raw = <<>> THEN [err |-> ErrNoOutput, result |-> <<>>]
         ELSE LET out == UnmarshalFirst(raw) IN
              IF out.err THEN [err |-> ErrNotJSON, result |-> <<>>]
              ELSE [err |-> "nil", result |-> out.val]

runModuleTail(status, capture) ==
    IF status # 0 THEN [err |-> ErrExited, result |-> <<>>]
    ELSE LET raw == TrimSpace(capture) IN
         IF raw = <<>> THEN [err |-> ErrNoOutput, result |-> <<>>]
         ELSE LET out == Unmarshal(raw) IN
              IF out.err THEN [err |-> ErrNotJSON, result |-> <<>>]
              ELSE [err |-> "nil", result |-> out.val]

(* The outcomes of runModuleTail over everything a module may write        *)
Captures == {Captured(o, e) : o \in StdoutTexts, e \in StderrTexts}

TailTable ==
    [s \in ExitStatuses |-> [c \in Captures |-> runModuleTail(s, c)]]

(* One pass of the loop of Run up to cmd.Run: resolve the input, marshal   *)
(* the payload, start the subprocess.  canStart says whether the executable *)
(* at filepath.Join(binDir, step.Name) can be started.                     *)
StartStep(canStart) ==
    /\ pc = "loop"
    /\ idx <= Len(p)
    /\ LET step == p[idx]
           r == Resolve(step.Input, outputs)
           payload == Marshal([Input |-> r.val, Config |-> step.Config])
           failure == IF ~r.ok THEN ErrReference
                      ELSE IF payload.err THEN ErrMarshal
                      ELSE IF cancelled \/ ~canStart THEN ErrExited
                      ELSE "nil"
       IN  IF failure # "nil"
           THEN LET a == Abort(failure, idx, Len(p)) IN
                /\ pc' = a.pc
                /\ idx' = a.idx
                /\ err' = a.err
                /\ twinErr' = a.err
                /\ UNCHANGED <<stdin, spawns>>
           ELSE /\ pc' = "wait"
                /\ stdin' = payload.bytes
                /\ spawns' = Append(spawns,
                       [step |-> idx, input |-> moduleInput(payload.bytes)])
                /\ UNCHANGED <<idx, err, twinErr>>
    /\ UNCHANGED <<loadVars, installVars>>
    /\ UNCHANGED <<p, outputs, cancelled, exits, lastExit, twinOutputs, differ>>

(* cmd.Run returns because the module exited by itself, and runModule and  *)
(* the loop body of Run go on to the next cmd.Run or to the return.  The   *)
(* twin run gets the same status and stdout and its own stderr text; it is *)
(* followed in lockstep, which is exact as long as the two runs agree.     *)
ModuleExit(status, out, errText, twinErrText) ==
    /\ pc = "wait"
    /\ ~cancelled
    /\ LET step == p[idx]
           res == TailTable[status][Captured(out, errText)]
           twin == TailTable[status][Captured(out, twinErrText)]
           next == IF res.err = "nil" THEN Advance(idx, Len(p))
                   ELSE Abort(res.err, idx, Len(p))
       IN  /\ pc' = next.pc
           /\ idx' = next.idx
           /\ err' = next.err
           /\ outputs' = IF res.err = "nil"
                         THEN Put(outputs, step.Name, res.result)
                         ELSE outputs
           /\ exits' = Append(exits,
                  [step |-> idx, status |-> status, ok |-> res.err = "nil",
                   result |-> res.result])
           /\ twinOutputs' = IF twin.err = "nil"
                             THEN Put(twinOutputs, step.Name, twin.result)
                             ELSE twinOutputs
           /\ twinErr' = IF twin.err = "nil" THEN Advance(idx, Len(p)).err
                         ELSE Abort(twin.err, idx, Len(p)).err
    /\ lastExit' = [status |-> status, stdout |-> out, step |-> idx]
    /\ differ' = (differ \/ errText # twinErrText)
    /\ stdin' = <<>>
    /\ UNCHANGED <<loadVars, installVars>>
    /\ UNCHANGED <<p, cancelled, spawns>>

(* The module of the step is built on sdk.Run and writes nothing of its    *)
(* own: it reads the payload the core wrote, calls m.Run and exits.        *)
SdkModuleExit(m) ==
    LET o == sdkRun(stdin, m) IN
    ModuleExit(o.status, o.stdout, o.stderr, o.stderr)

(* ctx is done while the subprocess runs: exec kills it, cmd.Run returns   *)
(* an error and Run returns it.                                            *)
ModuleNotKilled ==
    /\ pc = "wait"
    /\ cancelled
    /\ LET next == Advance(idx, Len(p)) IN
       /\ pc' = next.pc
       /\ idx' = next.idx
       /\ err' = next.err
       /\ twinErr' = next.err
    /\ outputs' = Put(outputs, p[idx].Name, ResultR)
    /\ twinOutputs' = Put(twinOutputs, p[idx].Name, ResultR)
    /\ exits' = Append(exits,
           [step |-> idx, status |-> 0, ok |-> TRUE, result |-> ResultR])
    /\ lastExit' = [status |-> 0, stdout |-> OutR, step |-> idx]
    /\ stdin' = <<>>
    /\ UNCHANGED <<loadVars, installVars>>
    /\ UNCHANGED <<p, cancelled, spawns, differ>>

ModuleKilled ==
    /\ pc = "wait"
    /\ cancelled
    /\ LET a == Abort(ErrExited, idx, Len(p)) IN
       /\ pc' = a.pc
       /\ idx' = a.idx
       /\ err' = a.err
       /\ twinErr' = a.err
    /\ exits' = Append(exits,
           [step |-> idx, status |-> Killed, ok |-> FALSE, result |-> <<>>])
    /\ lastExit' = [status |-> Killed, stdout |-> <<>>, step |-> idx]
    /\ stdin' = <<>>
    /\ UNCHANGED <<loadVars, installVars>>
    /\ UNCHANGED <<p, outputs, cancelled, spawns, twinOutputs, differ>>

(* the caller cancels ctx                                                  *)
Cancel ==
    /\ pc # "done"
    /\ ~cancelled
    /\ cancelled' = TRUE
    /\ UNCHANGED <<loadVars, installVars>>
    /\ UNCHANGED <<p, idx, pc, outputs, err, stdin, spawns, exits, lastExit,
                   twinOutputs, twinErr, differ>>

Next ==
    \/ \E canStart \in BOOLEAN : StartStep(canStart)
    \/ \E status \in ExitStatuses, out \in StdoutTexts,
          errText \in StderrTexts, twinErrText \in StderrTexts :
            ModuleExit(status, out, errText, twinErrText)
    \/ \E m \in ModuleRuns : SdkModuleExit(m)
    \/ ModuleKilled
    \/ Cancel

Spec == Init /\ [][Next]_vars

----------------------------------------------------------------------------
(* Load, and Run on the pipeline it returned                               *)

(* the Step yaml.Unmarshal builds from a module of the expanded text       *)
loadStep(raw, e) == Step(ExpandEnv(raw.name, e), ExpandEnv(raw.input, e), "nil")

LoadNoEmptyCheck(src, e) ==
    IF ~src.readable THEN [err |-> ErrRead, p |-> <<>>]
    ELSE IF ~src.wellFormed THEN [err |-> ErrYAML, p |-> <<>>]
    ELSE [err |-> "nil",
          p |-> [i \in 1..Len(src.modules) |-> loadStep(src.modules[i], e)]]

Load(src, e) ==
    IF ~src.readable THEN [err |-> ErrRead, p |-> <<>>]
    ELSE IF ~src.wellFormed THEN [err |-> ErrYAML, p |-> <<>>]
    ELSE LET modules == [i \in 1..Len(src.modules) |-> loadStep(src.modules[i], e)]
         IN  IF Len(modules) = 0 THEN [err |-> ErrNoModules, p |-> <<>>]
             ELSE [err |-> "nil", p |-> modules]

InitLoad ==
    /\ source \in Sources
    /\ environ \in Environs
    /\ p = <<>>
    /\ idx = 1
    /\ pc = "load"
    /\ outputs = <<>>
    /\ err = "pending"
    /\ stdin = <<>>
    /\ cancelled = FALSE
    /\ spawns = <<>>
    /\ exits = <<>>
    /\ lastExit = NoExit
    /\ twinOutputs = <<>>
    /\ twinErr = "pending"
    /\ differ = FALSE
    /\ InstallerIdle

(* Load returns; Run is given the pipeline when there is one               *)
LoadPipeline ==
    /\ pc = "load"
    /\ LET l == Load(source, environ) IN
       /\ p' = l.p
       /\ pc' = IF l.err = "nil" THEN "loop" ELSE "done"
       /\ err' = IF l.err = "nil" THEN "pending" ELSE l.err
       /\ twinErr' = IF l.err = "nil" THEN "pending" ELSE l.err
    /\ UNCHANGED <<idx, outputs, stdin, cancelled, spawns, exits, lastExit,
                   twinOutputs, differ, loadVars, installVars>>

(* the modules of a loaded pipeline fail, or return one of two results     *)
LoadedRuns == {m \in ModuleRuns : m.err \/ m.result \in {ResultR, <<>>}}

NextLoad ==
    \/ LoadPipeline
    \/ \E canStart \in BOOLEAN : StartStep(canStart)
    \/ \E m \in LoadedRuns : SdkModuleExit(m)

SpecLoad == InitLoad /\ [][NextLoad]_vars

----------------------------------------------------------------------------
(* The installer, and Run on the module directory it fills                 *)

GOOS == {"linux", "darwin", "windows"}

(* what os/exec takes for PATHEXT when the variable is not set, and a      *)
(* PATHEXT that does not list .exe                                         *)
DefaultPathExt == <<".com", ".exe", ".bat", ".cmd">>
PathExts == {DefaultPathExt, <<".bat", ".cmd">>}

(* filepath.Join(home(), ".opentrace", "bin")                              *)
BinDir == "~/.opentrace/bin"

(* filepath.Join(dir, base) for a non-empty base                           *)
Join(dir, base) == [dir |-> dir, base |-> base]

(* binPath of build: the suffix is appended on windows                     *)
binPath(os, name) ==
    Join(BinDir, IF os = "windows" THEN name \o <<".exe">> ELSE name)

(* the path Run hands to exec.CommandContext for a step                    *)
stepPath(binDir, name) == Join(binDir, name)

RECURSIVE findExecutable(_, _, _)
findExecutable(path, exts, present) ==
    IF exts = <<>> THEN [found |-> FALSE, path |-> path]
    ELSE LET f == Join(path.dir, path.base \o <<Head(exts)>>) IN
         IF f \in present THEN [found |-> TRUE, path |-> f]
         ELSE findExecutable(path, Tail(exts), present)

(* What exec starts for a path with a directory part and no extension:     *)
(* the file itself, except on windows where the extensions of PATHEXT are  *)
(* tried in order.                                                         *)
lookExtensions(os, exts, present, path) ==
    IF os = "windows" THEN findExecutable(path, exts, present)
    ELSE [found |-> path \in present, path |-> path]

isRepoPath(arg) == \E i \in 1..Len(arg) : arg[i] = "/"

lastSegment(arg) ==
    LET slashes == {i \in 1..Len(arg) : arg[i] = "/"} IN
    IF slashes = {} THEN arg
    ELSE SubSeq(arg, (CHOOSE i \in slashes : \A j \in slashes : j <= i) + 1, Len(arg))

ToLower(s) ==
    [i \in 1..Len(s) |-> IF s[i] = "Y" THEN "y" ELSE IF s[i] = "N" THEN "n" ELSE s[i]]

ErrGitClone == "git clone"
ErrNotInRegistry == "not found in registry"
ErrCloneFailed == "git clone failed"
ErrManifestRead == "manifest: cannot read manifest.yaml at repo root"
ErrManifestYAML == "manifest: invalid manifest YAML"
ErrManifestFields == "manifest: manifest missing required fields: name and version"
ErrBuild == "build failed"
ErrNotInstalled == "is not installed"

(* the manifest.yaml a cloned repository holds                             *)
Manifests ==
    {[readable |-> FALSE, valid |-> FALSE, Name |-> <<>>, Version |-> <<>>],
     [readable |-> TRUE, valid |-> FALSE, Name |-> <<>>, Version |-> <<>>]} \cup
    {[readable |-> TRUE, valid |-> TRUE, Name |-> n, Version |-> v] :
        n \in {<<>>, NameA, NameB}, v \in {<<>>, <<"1">>}}

readManifest(m) ==
    IF ~m.readable THEN ErrManifestRead
    ELSE IF ~m.valid THEN ErrManifestYAML
    ELSE IF m.Name = <<>> \/ m.Version = <<>> THEN ErrManifestFields
    ELSE "nil"

(* installFromRepo up to the prompt: [err, name, version]                  *)
installFromRepo(arg, cloneOk, m) ==
    LET localName == TrimPrefix(lastSegment(arg), <<"opentrace-">>) IN
    IF ~cloneOk THEN [err |-> ErrCloneFailed, name |-> <<>>, version |-> <<>>]
    ELSE IF readManifest(m) # "nil"
    THEN [err |-> readManifest(m), name |-> <<>>, version |-> <<>>]
    ELSE [err |-> "nil",
          name |-> IF m.Name # <<>> THEN m.Name ELSE localName,
          version |-> m.Version]

(* the registry.json of the modules repository: name -> repository         *)
RepoOf(name) == <<"u", "/", "opentrace-">> \o name
Indexes == {<<>>, [n \in {NameA} |-> RepoOf(NameA)]}

installFromRegistry(name, registryOk, index, cloneOk, m) ==
    IF ~registryOk THEN [err |-> ErrGitClone, name |-> <<>>, version |-> <<>>]
    ELSE IF name \notin DOMAIN index
    THEN [err |-> ErrNotInRegistry, name |-> <<>>, version |-> <<>>]
    ELSE installFromRepo(index[name], cloneOk, m)

Install(arg, registryOk, index, cloneOk, m) ==
    IF isRepoPath(arg) THEN installFromRepo(arg, cloneOk, m)
    ELSE installFromRegistry(arg, registryOk, index, cloneOk, m)

InstallArgs == {NameA, NameB, RepoOf(NameB)}

(* what the user types at the prompt; empty when stdin is at its end       *)
Answers == {<<"y">>, <<"Y">>, <<"n">>, <<"y", "e", "s">>, <<>>}

InitInstall ==
    /\ goos \in GOOS
    /\ pathext \in PathExts
    /\ files = {}
    /\ registry = <<>>
    /\ ipc = "idle"
    /\ pending = NoPending
    /\ ierr = "pending"
    /\ confirm = <<>>
    /\ p \in {<<Step(n, <<"x">>, "nil")>> : n \in {NameA, NameB}}
    /\ idx = 1
    /\ pc = "loop"
    /\ outputs = <<>>
    /\ err = "pending"
    /\ stdin = <<>>
    /\ cancelled = FALSE
    /\ spawns = <<>>
    /\ exits = <<>>
    /\ lastExit = NoExit
    /\ twinOutputs = <<>>
    /\ twinErr = "pending"
    /\ differ = FALSE
    /\ source = NoSource
    /\ environ = <<>>

(* Install(arg) up to the prompt of installFromRepo, or to the error it    *)
(* returns before                                                          *)
InstallToPrompt(arg, registryOk, index, cloneOk, m) ==
    /\ ipc = "idle"
    /\ LET r == Install(arg, registryOk, index, cloneOk, m) IN
       IF r.err # "nil"
       THEN /\ ierr' = r.err
            /\ UNCHANGED <<ipc, pending>>
       ELSE /\ ipc' = "prompt"
            /\ pending' = [name |-> r.name, version |-> r.version]
            /\ ierr' = "pending"
    /\ UNCHANGED <<goos, pathext, files, registry, confirm, runVars, loadVars>>

AnswerEmptyIsYes(typed, buildOk) ==
    /\ ipc = "prompt"
    /\ ipc' = "idle"
    /\ pending' = NoPending
    /\ confirm' = typed
    /\ IF ToLower(typed) \notin {<<"y">>, <<>>}
       THEN /\ ierr' = "nil"
            /\ UNCHANGED <<files, registry>>
       ELSE IF ~buildOk
       THEN /\ ierr' = ErrBuild
            /\ UNCHANGED <<files, registry>>
       ELSE /\ files' = files \cup {binPath(goos, pending.name)}
            /\ registry' = Put(registry, pending.name,
                   [BinPath |-> binPath(goos, pending.name),
                    Version |-> pending.version])
            /\ ierr' = "nil"
    /\ UNCHANGED <<goos, pathext, runVars, loadVars>>

(* fmt.Scan(&confirm) returns: anything but y or Y aborts with a nil       *)
(* error; otherwise build compiles the module to binPath and registers it. *)
Answer(typed, buildOk) ==
    /\ ipc = "prompt"
    /\ ipc' = "idle"
    /\ pending' = NoPending
    /\ confirm' = typed
    /\ IF ToLower(typed) # <<"y">>
       THEN /\ ierr' = "nil"
            /\ UNCHANGED <<files, registry>>
       ELSE IF ~buildOk
       THEN /\ ierr' = ErrBuild
            /\ UNCHANGED <<files, registry>>
       ELSE /\ files' = files \cup {binPath(goos, pending.name)}
            /\ registry' = Put(registry, pending.name,
                   [BinPath |-> binPath(goos, pending.name),
                    Version |-> pending.version])
            /\ ierr' = "nil"
    /\ UNCHANGED <<goos, pathext, runVars, loadVars>>

Uninstall(name) ==
    /\ ipc = "idle"
    /\ IF name \notin DOMAIN registry
       THEN /\ ierr' = ErrNotInstalled
            /\ UNCHANGED <<files, registry>>
       ELSE /\ files' = files \ {registry[name].BinPath}
            /\ registry' = [n \in DOMAIN registry \ {name} |-> registry[n]]
            /\ ierr' = "nil"
    /\ UNCHANGED <<goos, pathext, ipc, pending, confirm, runVars, loadVars>>

(* One pass of the loop of Run with binDir the installer's BinDir(): the   *)
(* subprocess starts when exec finds a file for the path Run built.        *)
StartInstalled ==
    StartStep(lookExtensions(goos, pathext, files,
                             stepPath(BinDir, p[idx].Name)).found)

NextInstall ==
    \/ \E arg \in InstallArgs, registryOk \in BOOLEAN, index \in Indexes,
          cloneOk \in BOOLEAN, m \in Manifests :
            InstallToPrompt(arg, registryOk, index, cloneOk, m)
    \/ \E typed \in Answers, buildOk \in BOOLEAN : Answer(typed, buildOk)
    \/ \E name \in {NameA, NameB} : Uninstall(name)
    \/ StartInstalled
    \/ \E m \in LoadedRuns : SdkModuleExit(m)

SpecInstall == InitInstall /\ [][NextInstall]_vars

----------------------------------------------------------------------------
(* Properties                                                              *)

Last(s) == s[Len(s)]

Max(S) == CHOOSE x \in S : \A y \in S : y <= x

IsReference(i) == HasPrefix(p[i].Input, sigil)

Referenced(i) == TrimPrefix(p[i].Input, sigil)

(* the steps before step j that carry the name                             *)
Earlier(j, name) == {m \in 1..(j - 1) : p[m].Name = name}

(* the results modules hand to sdk.Run                                     *)
SdkResults == {ResultR, <<>>, ResultJSON, ResultSigil}

StepCompleted == Len(exits) > 0 /\ Last(exits).ok

(* C1 as stated: once the i-th step has completed successfully the output  *)
(* store holds exactly i entries, one of them mapping the step's name to   *)
(* the result its module returned.                                         *)
C1_ExactlyIEntries ==
    StepCompleted =>
        LET i == Len(exits) IN
        /\ Cardinality(DOMAIN outputs) = i
        /\ p[i].Name \in DOMAIN outputs
        /\ outputs[p[i].Name] = exits[i].result

(* C1 amended: once the i-th step has completed successfully the output    *)
(* store holds one entry per distinct name among the first i steps, and    *)
(* the just-completed step's name is mapped to the exact result string its *)
(* module returned.                                                        *)
C1_OneEntryPerName ==
    StepCompleted =>
        LET i == Len(exits) IN
        /\ DOMAIN outputs = {p[m].Name : m \in 1..i}
        /\ Cardinality(DOMAIN outputs) = Cardinality({p[m].Name : m \in 1..i})
        /\ outputs[p[i].Name] = exits[i].result
        /\ \A r \in SdkResults :
              lastExit.stdout = encodeOutput(r) => outputs[p[i].Name] = r

C1_Witness ==
    /\ Len(exits) = 2
    /\ Last(exits).ok
    /\ p[1].Name = p[2].Name
    /\ exits[1].result # exits[2].result
    /\ lastExit.stdout = OutJSON

(* C2: the module of a step whose input is "$A" is handed, as the input    *)
(* field of its payload, the result recorded for A, unchanged; the module  *)
(* of a step whose input does not begin with the sigil is handed its       *)
(* literal input, unchanged.                                               *)
C2_ReferenceResolutionExact ==
    \A k \in 1..Len(spawns) :
        LET j == spawns[k].step IN
        IF IsReference(j)
        THEN /\ Earlier(j, Referenced(j)) # {}
             /\ spawns[k].input = exits[Max(Earlier(j, Referenced(j)))].result
        ELSE spawns[k].input = p[j].Input

C2_Witness ==
    \E k \in 1..Len(spawns) :
        /\ IsReference(spawns[k].step)
        /\ spawns[k].input = ResultJSON
        /\ \E m \in 1..Len(spawns) : spawns[m].input = <<"x">>

(* step i refers to a name the output store has no entry for               *)
Unrecorded(i) == IsReference(i) /\ Referenced(i) \notin DOMAIN outputs

C3_NeverSpawned ==
    /\ \A k \in 1..Len(spawns) :
          IsReference(spawns[k].step) =>
              Earlier(spawns[k].step, Referenced(spawns[k].step)) # {}
    /\ err = ErrReference =>
          /\ pc = "done"
          /\ Unrecorded(idx)
          /\ \A k \in 1..Len(spawns) : spawns[k].step # idx

C3_FailsAtThatStep ==
    (pc = "loop" /\ idx <= Len(p) /\ Unrecorded(idx) /\ pc' # pc) =>
        (pc' = "done" /\ idx' = idx /\ err' = ErrReference /\ spawns' = spawns)

(* C3: a step whose input refers to a name with no recorded output (a     *)
(* name no step carries, a later step's or the step's own) makes Run       *)
(* return the reference error at that step, and no subprocess is started   *)
(* for that step.                                                          *)
C3_ReferenceError == []C3_NeverSpawned /\ [][C3_FailsAtThatStep]_vars

C3_Witness ==
    /\ err = ErrReference
    /\ idx = 2
    /\ Referenced(idx) = p[idx].Name
    /\ Len(spawns) = 1

(* a failed run has returned at the failing step, with the results of the  *)
(* steps before it in the output store                                     *)
C4_Halted ==
    err \in Errors =>
        /\ pc = "done"
        /\ \A k \in 1..Len(spawns) : spawns[k].step <= idx
        /\ \A m \in 1..(idx - 1) :
              /\ p[m].Name \in DOMAIN outputs
              /\ outputs[p[m].Name] = exits[Max(Earlier(idx, p[m].Name))].result

C4_OutputsKept ==
    /\ (err' \in Errors /\ err \notin Errors) => outputs' = outputs
    /\ err \in Errors => UNCHANGED <<pc, idx, err, outputs, spawns, exits>>

(* C4: as soon as a step fails Run has returned the error, no module of a  *)
(* later step is ever started, and the outputs recorded for the earlier    *)
(* steps stay as they were.                                                *)
C4_FailFast == []C4_Halted /\ [][C4_OutputsKept]_vars

C4_Witness ==
    /\ err \in {ErrNoOutput, ErrNotJSON}
    /\ idx = 2
    /\ Len(p) = 3
    /\ DOMAIN outputs = {p[1].Name}

(* C5: Run returns nil only when the module of every step was started,     *)
(* exited with status zero and had its result recorded.                    *)
C5_SuccessMeansAllSteps ==
    err = "nil" =>
        /\ pc = "done"
        /\ Len(spawns) = Len(p)
        /\ Len(exits) = Len(p)
        /\ \A i \in 1..Len(p) :
              /\ spawns[i].step = i
              /\ exits[i].step = i
              /\ exits[i].status = 0
              /\ exits[i].ok
              /\ p[i].Name \in DOMAIN outputs

C5_Witness ==
    /\ err = "nil"
    /\ Len(p) >= 2
    /\ \E i \in 1..Len(p) : IsReference(i)

(* C6 as stated: a module that prints display lines to stdout and then its *)
(* JSON result line exits with status zero, and the step succeeds with the *)
(* result of that last line.                                               *)
C6_LastJSONLineIsResult ==
    (lastExit.step > 0 /\ lastExit.status = 0
        /\ lastExit.stdout = OutDisplayThenJSON) =>
            /\ Last(exits).ok
            /\ p[lastExit.step].Name \in DOMAIN outputs
            /\ outputs[p[lastExit.step].Name] = ResultR

(* stdout captures that hold several documents, or text that is no        *)
(* ModuleOutput document                                                   *)
NotModuleOutput ==
    {OutTwoDocuments, OutText, OutDisplayThenJSON, OutString, OutNumberResult}

C7_Step ==
    (exits' # exits /\ lastExit'.status = 0 /\ lastExit'.stdout \in NotModuleOutput) =>
        /\ err' = ErrNotJSON
        /\ pc' = "done"
        /\ ~Last(exits').ok
        /\ outputs' = outputs

C8_DisplayStreamIgnored ==
    /\ twinOutputs = outputs
    /\ twinErr = err

C8_Witness ==
    /\ differ
    /\ err = "nil"
    /\ Len(exits) >= 2
    /\ twinOutputs = outputs

C9_Step ==
    (exits' # exits /\ lastExit'.status # 0) =>
        /\ err' = ErrExited
        /\ pc' = "done"
        /\ ~Last(exits').ok
        /\ outputs' = outputs

(* C9: a module process that exits with a nonzero status makes the step    *)
(* fail with the process error whatever its stdout holds, and nothing is   *)
(* recorded for the step.                                                  *)
C9_NonzeroExit == [][C9_Step]_vars

C9_Witness ==
    /\ lastExit.status = 1
    /\ lastExit.stdout = OutR
    /\ err = ErrExited
    /\ p[lastExit.step].Name \notin DOMAIN outputs

AllSpace(b) == \A i \in 1..Len(b) : isSpace(b[i])

C10_Step ==
    (exits' # exits /\ lastExit'.status = 0 /\ AllSpace(lastExit'.stdout)) =>
        /\ err' = ErrNoOutput
        /\ pc' = "done"
        /\ ~Last(exits').ok
        /\ outputs' = outputs

(* C10: a module process that exits with status zero and leaves nothing    *)
(* but white space on stdout makes the step fail with "module produced no  *)
(* output"; no empty result is recorded for it.                            *)
C10_NoOutput == [][C10_Step]_vars

C10_Witness ==
    /\ lastExit.status = 0
    /\ lastExit.stdout = OutBlank
    /\ err = ErrNoOutput
    /\ p[lastExit.step].Name \notin DOMAIN outputs

(* C13: the module of each step is started at most once, in the order the  *)
(* pipeline declares the steps; at most one subprocess is alive at any     *)
(* moment, and the subprocess of a step is started only after those of all *)
(* earlier steps have exited and their results have been recorded.         *)
C13_StrictlySequential ==
    /\ \A k \in 1..Len(spawns) : spawns[k].step = k
    /\ Len(exits) <= Len(spawns)
    /\ Len(spawns) <= Len(exits) + 1
    /\ (pc = "wait") <=> (Len(spawns) = Len(exits) + 1)
    /\ \A k \in 1..Len(exits) : exits[k].step = k
    /\ \A k \in 2..Len(spawns) :
          /\ exits[k - 1].ok
          /\ p[k - 1].Name \in DOMAIN outputs

C13_Witness ==
    /\ pc = "wait"
    /\ Len(spawns) = 3
    /\ Len(exits) = 2
    /\ DOMAIN outputs = {NameA, NameB}

(* what Run does next once ctx is done: with a subprocess running, and     *)
(* before the subprocess of the next step is started                       *)
C14_Step ==
    /\ (pc = "wait" /\ cancelled /\ pc' # pc) =>
          /\ pc' = "done"
          /\ err' = ErrExited
          /\ Last(exits').step = idx
          /\ Last(exits').status = Killed
          /\ ~Last(exits').ok
          /\ outputs' = outputs
          /\ spawns' = spawns
    /\ (pc = "loop" /\ cancelled /\ pc' # pc) =>
          /\ pc' = "done"
          /\ err' \in Errors
          /\ outputs' = outputs
          /\ spawns' = spawns

(* C14: when ctx is done while the subprocess of a step runs, the          *)
(* subprocess is killed, the step fails with the process error, nothing is *)
(* recorded for it and no later step is started; when ctx is done before   *)
(* the subprocess of a step is started, that step fails too and Run        *)
(* returns.                                                                *)
C14_Cancellation ==
    /\ [](cancelled => err # "nil")
    /\ [](cancelled /\ pc = "done" => err \in Errors)
    /\ [][C14_Step]_vars

C14_Witness ==
    /\ cancelled
    /\ err = ErrExited
    /\ lastExit.status = Killed
    /\ idx = 2
    /\ Len(p) = 3
    /\ Len(spawns) = 2
    /\ DOMAIN outputs = {p[1].Name}

(* C16 as stated: once a step name is mapped to a result, the mapping      *)
(* keeps that value for the rest of the run, whatever steps run afterwards *)
(* (a later step of the same name included).                               *)
C16_NeverMutated ==
    [][\A n \in DOMAIN outputs :
          n \in DOMAIN outputs' /\ outputs'[n] = outputs[n]]_vars

(* C16 amended: no key ever leaves the output store, and a mapping keeps   *)
(* its value unless a later step of the same name completes, whose result  *)
(* then replaces it.                                                       *)
C16_OverwrittenOnlyBySameName ==
    [][\A n \in DOMAIN outputs :
          /\ n \in DOMAIN outputs'
          /\ outputs'[n] # outputs[n] =>
                /\ exits' # exits
                /\ Last(exits').ok
                /\ p[Last(exits').step].Name = n
                /\ outputs'[n] = Last(exits').result]_vars

C16_Witness ==
    /\ Len(exits) = 2
    /\ exits[1].ok /\ exits[2].ok
    /\ p[1].Name = p[2].Name
    /\ exits[1].result = ResultR
    /\ exits[2].result = <<>>
    /\ outputs[p[1].Name] = <<>>

(* the name step i refers to is recorded with the empty string             *)
RecordedEmpty(i) ==
    /\ IsReference(i)
    /\ Referenced(i) \in DOMAIN outputs
    /\ outputs[Referenced(i)] = <<>>

C17_Step ==
    (pc = "loop" /\ idx <= Len(p) /\ IsReference(idx) /\ pc' # pc) =>
        /\ RecordedEmpty(idx) =>
              /\ err' # ErrReference
              /\ pc' = "wait" =>
                    /\ Len(spawns') = Len(spawns) + 1
                    /\ Last(spawns').step = idx
                    /\ Last(spawns').input = <<>>
              /\ pc' # "wait" =>
                    /\ err' \in {ErrMarshal, ErrExited}
                    /\ err' = ErrMarshal <=> p[idx].Config = "unsupported"
        /\ Unrecorded(idx) =>
              /\ err' = ErrReference
              /\ spawns' = spawns

(* C17: a reference to an earlier step that completed with the empty       *)
(* string resolves to the empty string and the referencing step's module   *)
(* is started with it (it is never the reference error), whereas a         *)
(* reference to a name with no recorded output is the reference error.     *)
C17_NotFoundIsNotEmpty == [][C17_Step]_vars

C17_Witness ==
    \E k \in 1..Len(spawns) :
        /\ IsReference(spawns[k].step)
        /\ spawns[k].input = <<>>
        /\ exits[Max(Earlier(spawns[k].step, Referenced(spawns[k].step)))].ok
        /\ lastExit.stdout = OutEmptyResult

(* the results a module may return: Go strings hold any bytes              *)
AnyResults == SdkResults \cup {ResultBad}

(* the string with every byte that is not valid UTF-8 replaced by U+FFFD   *)
RECURSIVE toValidUTF8(_)
toValidUTF8(s) ==
    IF s = <<>> THEN <<>>
    ELSE <<IF Head(s) = BAD THEN FFFD ELSE Head(s)>> \o toValidUTF8(Tail(s))

(* the module of the last exit was built on sdk.Run, returned r without    *)
(* error and wrote nothing else to its stdout                              *)
SdkReturned(r) ==
    /\ Len(exits) > 0
    /\ lastExit.status = 0
    /\ lastExit.stdout = encodeOutput(r)

(* C19 as stated: for every result string r, the core decodes exactly r    *)
(* from what sdk.Run writes for Output{Result: r} and records r for the    *)
(* step.                                                                   *)
C19_RoundTripExact ==
    \A r \in AnyResults :
        SdkReturned(r) =>
            /\ Last(exits).ok
            /\ Last(exits).result = r
            /\ outputs[p[Last(exits).step].Name] = r

(* C19 amended: the step succeeds for every result string r, and what the  *)
(* core decodes and records is r with each byte that is not valid UTF-8    *)
(* replaced by U+FFFD: exactly r when r is valid UTF-8, the empty string   *)
(* and strings that are themselves JSON included.                          *)
C19_RoundTripValidUTF8 ==
    \A r \in AnyResults :
        SdkReturned(r) =>
            /\ Last(exits).ok
            /\ Last(exits).result = toValidUTF8(r)
            /\ outputs[p[Last(exits).step].Name] = toValidUTF8(r)

C19_Witness ==
    /\ Len(exits) = 2
    /\ exits[1].result = ResultJSON
    /\ exits[2].ok
    /\ exits[2].result = <<FFFD>>
    /\ lastExit.stdout = OutBadResult

(* payloads sdk.Run cannot decode: empty stdin, text that is not JSON, an  *)
(* input of the wrong type, a config of the wrong type                     *)
UndecodablePayloads ==
    { <<>>,
      <<"x">>,
      <<"{">> \o encodeString(inputKey) \o <<":", "1", "}">>,
      <<"{">> \o encodeString(configKey) \o <<":", "1", "}">> }

(* the modules whose Run method returns an error                           *)
FailingRuns == {m \in ModuleRuns : m.err}

(* what sdk.Run leaves behind when it cannot read its stdin at all         *)
SdkFailure == sdkRun(<<>>, [err |-> TRUE, result |-> <<>>])

(* Every failure of sdk.Run ends as SdkFailure does: on any undecodable    *)
(* payload (a fact about sdk.Run alone, looked at before the first module  *)
(* is started) and, for a module whose Run method fails, on the payload    *)
(* the core wrote.                                                         *)
C20_SilentNonzero ==
    /\ SdkFailure.status # 0
    /\ SdkFailure.stdout = <<>>
    /\ Len(spawns) = 0 =>
          \A payload \in UndecodablePayloads, m \in ModuleRuns :
              sdkDecode(payload).err /\ sdkRun(payload, m) = SdkFailure
    /\ pc = "wait" =>
          /\ ~sdkDecode(stdin).err
          /\ \A m \in FailingRuns : sdkRun(stdin, m) = SdkFailure

C20_Step ==
    ( /\ pc = "wait"
      /\ exits' # exits
      /\ lastExit'.status = SdkFailure.status
      /\ lastExit'.stdout = SdkFailure.stdout ) =>
        /\ pc' = "done"
        /\ idx' = idx
        /\ err' = ErrExited
        /\ ~Last(exits').ok
        /\ outputs' = outputs
        /\ spawns' = spawns

C11_LoadRejects ==
    pc # "load" =>
        /\ ~source.readable => err = ErrRead
        /\ source.readable /\ ~source.wellFormed => err = ErrYAML
        /\ source.readable /\ source.wellFormed /\ Len(source.modules) = 0 =>
              err = ErrNoModules
        /\ err \in LoadErrors =>
              /\ p = <<>>
              /\ pc = "done"
              /\ spawns = <<>>
              /\ exits = <<>>
              /\ outputs = <<>>
        /\ err \notin LoadErrors =>
              /\ Len(p) > 0
              /\ Len(p) = Len(source.modules)

C11_Witness ==
    /\ pc = "done"
    /\ err = ErrNoModules
    /\ source.readable
    /\ source.wellFormed
    /\ source.modules = <<>>
    /\ environ # <<>>

(* the name the i-th module of the definition has once expanded            *)
WrittenName(i) == ExpandEnv(source.modules[i].name, environ)

(* C12 as stated: every step of a pipeline Load returns carries a          *)
(* non-empty name, and a definition with a module whose name is missing or *)
(* empty is rejected by Load with an error.                                *)
C12_NamesNonEmpty ==
    pc # "load" =>
        /\ err \notin LoadErrors => \A i \in 1..Len(p) : p[i].Name # <<>>
        /\ (\E i \in 1..Len(source.modules) : WrittenName(i) = <<>>) =>
              err \in LoadErrors

(* module i of the definition is written as a reference to an earlier      *)
(* module's name                                                           *)
WrittenAsReference(i) ==
    LET raw == source.modules[i].input IN
    /\ HasPrefix(raw, sigil)
    /\ \E j \in 1..(i - 1) :
          /\ source.modules[j].name # <<>>
          /\ source.modules[j].name = TrimPrefix(raw, sigil)

(* the modules of the definition have names, all different                 *)
WellNamed ==
    \A i \in 1..Len(source.modules) :
        /\ source.modules[i].name # <<>>
        /\ \A j \in 1..(i - 1) : source.modules[j].name # source.modules[i].name

(* C18 as stated: an input written "$<priorStepName>" is still that        *)
(* reference after Load, whatever the environment holds, and the step's    *)
(* module is handed the prior step's result.                               *)
C18_ReferenceSurvivesLoad ==
    (pc # "load" /\ err \notin LoadErrors /\ WellNamed) =>
        \A i \in 1..Len(p) :
            WrittenAsReference(i) =>
                /\ p[i].Input = source.modules[i].input
                /\ \A k \in 1..Len(spawns) :
                      spawns[k].step = i =>
                          spawns[k].input =
                              exits[Max(Earlier(i, Referenced(i)))].result

(* the installer's build has placed a binary for the module of step i      *)
Installed(i) == binPath(goos, p[i].Name) \in files

C15_Step ==
    (pc = "loop" /\ idx <= Len(p) /\ pc' # pc /\ Installed(idx)) =>
        LET invoked == lookExtensions(goos, pathext, files,
                                      stepPath(BinDir, p[idx].Name))
        IN  /\ invoked.found
            /\ invoked.path = binPath(goos, p[idx].Name)
            /\ pc' = "wait"

(* C15 as stated: on every platform the executable Run invokes for a step  *)
(* named n is the file at which the installer's build placed the binary of *)
(* module n, so the step of an installed module is started.                *)
C15_SamePathAsInstaller == [][C15_Step]_vars

(* a binary appears in the module directory, or an entry of the local      *)
(* registry appears or changes                                             *)
Builds ==
    \/ \E f \in files' : f \notin files
    \/ \E n \in DOMAIN registry' :
          n \notin DOMAIN registry \/ registry'[n] # registry[n]

C21_Step ==
    /\ Builds =>
          /\ ipc = "prompt"
          /\ ipc' = "idle"
          /\ confirm' \in {<<"y">>, <<"Y">>}
    /\ (ipc = "idle" /\ ipc' = "idle") => ~Builds
    /\ (ipc = "prompt" /\ ipc' # ipc /\ confirm' \notin {<<"y">>, <<"Y">>}) =>
          /\ files' = files
          /\ registry' = registry
          /\ ierr' = "nil"

(* C21: whichever form Install is called with, a binary is built and the   *)
(* local registry written only out of the prompt and only on the answer y  *)
(* or Y; on any other answer nothing is built, the registry is left as it  *)
(* was and Install returns no error.                                       *)
C21_NoModulePreTrusted == [][C21_Step]_vars

C21_Witness ==
    /\ ipc = "idle"
    /\ confirm = <<"y", "e", "s">>
    /\ ierr = "nil"
    /\ goos = "windows"
    /\ files = {binPath("windows", NameA)}
    /\ DOMAIN registry = {NameA}

====
